---- MODULE Spec2Model ----
(***************************************************************************)
(* Model of the CompleteSecurity session verification wizard               *)
(* (src/unnamed/part_001): its React state, the passphrase flow with its   *)
(* asynchronous external calls, the verification-request overlay and the   *)
(* subscriptions it holds on each request's "change" stream.               *)
(*                                                                         *)
(* One action is one JavaScript macrotask: a handler, or the continuation  *)
(* of an async function after an awaited promise settles, together with    *)
(* every microtask it triggers.  MatrixClientPeg.get() is non-null for the *)
(* whole run (the wizard is only shown to a logged-in user).               *)
(***************************************************************************)
EXTENDS Naturals, Sequences, FiniteSets

\* ---- bounds --------------------------------------------------------------
NumRequests == 2        \* verification requests the client may emit
MaxFinished == 2        \* cap on the recorded calls of props.onFinished

\* ---- program constants ---------------------------------------------------
PHASE_INTRO == 0
PHASE_BUSY == 1
PHASE_DONE == 2
PHASE_CONFIRM_SKIP == 3

Phases == {PHASE_INTRO, PHASE_BUSY, PHASE_DONE, PHASE_CONFIRM_SKIP}

NoRequest == 0          \* verificationRequest: null
Requests == 1..NumRequests

NoBackup == "null"      \* getKeyBackupVersion() resolved with null
BackupInfos == {NoBackup, "backupInfo"}

MyUserId == "@me"       \* MatrixClientPeg.get().getUserId()
UserIds == {MyUserId, "@other"}

Errors == {"AccessCancelledError", "Error"}

VARIABLES
    phase,                \* this.state.phase
    verificationRequest,  \* this.state.verificationRequest
    backupInfo,           \* this.state.backupInfo
    mounted,              \* the component is mounted (setState has effect)
    listening,            \* "crypto.verification.request" listener registered
    pc,                   \* position of the running _onUsePassphraseClick
    localBackupInfo,      \* const backupInfo of the running _onUsePassphraseClick
    restore,              \* state of restoreKeyBackupWithSecretStorage
    crossSigningId,       \* cli.getCrossSigningId() is truthy
    reqState,             \* per request: position of onVerificationRequest
    cancelled,            \* per request: request.cancelled
    subs,                 \* requests whose "change" stream carries our handler
    finishedCalls,        \* number of calls of props.onFinished
    logged,               \* console output and uncaught errors of the last step
    \* KeywordsEditor (MentionsKeywordsSection.tsx)
    disabled,             \* props.disabled
    keywords,             \* useState: the local keyword list
    value,                \* useState: the text of the textarea
    parentCalls,          \* calls of props.addKeyword / removeKeyword in the last step
    \* UserInfoSharedRooms
    compact,              \* props.compact
    getRoom,              \* the client's rooms: what peg.getRoom(roomId) returns
    hasRoomIds,           \* this.state.roomIds is set
    roomIds,              \* this.state.roomIds
    error,                \* this.state.error
    showAll,              \* this.state.showAll
    dispatched            \* room_id of the view_room actions dispatched in the last step

wizardVars == <<phase, verificationRequest, backupInfo, mounted, listening, pc,
                localBackupInfo, restore, crossSigningId, reqState, cancelled,
                subs, finishedCalls, logged>>

editorVars == <<disabled, keywords, value, parentCalls>>

sharedRoomsVars == <<compact, getRoom, hasRoomIds, roomIds, error, showAll,
                     dispatched>>

vars == <<wizardVars, editorVars, sharedRoomsVars>>

\* What the wizard's handlers never touch.
outsideWizard == <<editorVars, sharedRoomsVars>>

wizardState == <<phase, verificationRequest, backupInfo>>
flowVars == <<pc, localBackupInfo, restore, crossSigningId>>
requestVars == <<reqState, cancelled, subs>>

\* ---- helpers -------------------------------------------------------------

\* React drops a setState made on an unmounted component.
SetState(old, new) == IF mounted THEN new ELSE old

\* if (!(e instanceof AccessCancelledError)) console.log(e);
CatchLog(e) == IF e # "AccessCancelledError" THEN <<<<"console.log", e>>>> ELSE << >>

\* inner catch around the accessSecretStorage call: console.error(e); reject(e);
InnerCatchLog(e) == <<<<"console.error", e>>>>

\* The phase after the wait, with the setState of PHASE_DONE left out.
PhaseAfterTrust_NoDone(id) == phase

\* The phase after the wait, with the getCrossSigningId() test left out.
PhaseAfterTrust_Unchecked(id) == SetState(phase, PHASE_DONE)

\* if (cli.getCrossSigningId()) this.setState({phase: PHASE_DONE});
PhaseAfterTrust(id) == IF id THEN SetState(phase, PHASE_DONE) ELSE phase

\* The restore started without the test of backupInfo.
RestoreAfterTrust_Always(info) == "running"

\* if (backupInfo) await cli.restoreKeyBackupWithSecretStorage(backupInfo);
RestoreAfterTrust(info) == IF info # NoBackup THEN "running" ELSE restore

\* The otherUserId test left out: every request is handled.
IsOwnRequest_Any(otherUserId) == TRUE

\* if (request.otherUserId !== MatrixClientPeg.get().getUserId()) return;
IsOwnRequest(otherUserId) == otherUserId = MyUserId

\* if (this.state.verificationRequest) this.state.verificationRequest.off("change", ...)
OffCurrent(s) == IF verificationRequest # NoRequest THEN s \ {verificationRequest} ELSE s

\* render(): which body is shown
ShowsPanel == verificationRequest # NoRequest
ShowsPhase(p) == mounted /\ ~ShowsPanel /\ phase = p

\* ---- initial state: after the constructor --------------------------------
WizardInit ==
    /\ phase = PHASE_INTRO
    /\ verificationRequest = NoRequest
    /\ backupInfo = NoBackup
    /\ mounted = TRUE
    /\ listening = TRUE
    /\ pc = "idle"
    /\ localBackupInfo = NoBackup
    /\ restore = "none"
    /\ crossSigningId = FALSE
    /\ reqState = [r \in Requests |-> "new"]
    /\ cancelled = [r \in Requests |-> FALSE]
    /\ subs = {}
    /\ finishedCalls = 0
    /\ logged = << >>

\* No KeywordsEditor is on screen while the wizard is.
EditorAbsent ==
    /\ disabled = TRUE
    /\ keywords = << >>
    /\ value = << >>
    /\ parentCalls = << >>

\* peg.getRoom(roomId) of a room the client does not know: null.
NullRoom == [found |-> FALSE, tombstone |-> FALSE, alias |-> FALSE]

\* No UserInfoSharedRooms is on screen either.
SharedRoomsAbsent ==
    /\ compact = FALSE
    /\ getRoom = << >>
    /\ hasRoomIds = FALSE
    /\ roomIds = << >>
    /\ error = FALSE
    /\ showAll = FALSE
    /\ dispatched = << >>

Init == WizardInit /\ EditorAbsent /\ SharedRoomsAbsent

\* ---- componentWillUnmount -------------------------------------------------
componentWillUnmount ==
    /\ mounted
    /\ subs' = OffCurrent(subs)
    /\ listening' = FALSE
    /\ mounted' = FALSE
    /\ logged' = << >>
    /\ UNCHANGED outsideWizard
    /\ UNCHANGED <<wizardState, flowVars, reqState, cancelled, finishedCalls>>

\* ---- _onUsePassphraseClick ------------------------------------------------
\* The click: setState({phase: PHASE_BUSY}); cli.getKeyBackupVersion() is called.
onUsePassphraseClick ==
    /\ ShowsPhase(PHASE_INTRO)
    /\ phase' = SetState(phase, PHASE_BUSY)
    /\ pc' = "getKeyBackupVersion"
    /\ logged' = << >>
    /\ UNCHANGED outsideWizard
    /\ UNCHANGED <<verificationRequest, backupInfo, mounted, listening,
                   localBackupInfo, restore, crossSigningId, requestVars,
                   finishedCalls>>

\* getKeyBackupVersion() resolves with info; setState({backupInfo}); then
\* accessSecretStorage(callback) is called inside the Promise executor and
\* either returns (thrown = "none"; its work goes on asynchronously) or throws
\* the error `thrown`, which the inner catch logs and rejects with, so that the
\* outer catch runs in the same task.
getKeyBackupVersionResolved(info, thrown) ==
    /\ pc = "getKeyBackupVersion"
    /\ backupInfo' = SetState(backupInfo, info)
    /\ localBackupInfo' = info
    /\ IF thrown = "none"
       THEN /\ pc' = "accessSecretStorage"
            /\ phase' = phase
            /\ logged' = << >>
       ELSE /\ pc' = "caught"
            /\ phase' = SetState(phase, PHASE_INTRO)
            /\ logged' = InnerCatchLog(thrown) \o CatchLog(thrown)
    /\ UNCHANGED outsideWizard
    /\ UNCHANGED <<verificationRequest, mounted, listening, restore,
                   crossSigningId, requestVars, finishedCalls>>

\* A rejection of getKeyBackupVersion() answered by calling it again.
getKeyBackupVersionRejected_Retries ==
    /\ pc = "getKeyBackupVersion"
    /\ pc' = "getKeyBackupVersion"
    /\ logged' = CatchLog("Error")
    /\ UNCHANGED outsideWizard
    /\ UNCHANGED <<wizardState, mounted, listening, localBackupInfo, restore,
                   crossSigningId, requestVars, finishedCalls>>

\* getKeyBackupVersion() rejects: the outer catch logs and returns to Intro.
getKeyBackupVersionRejected ==
    /\ pc = "getKeyBackupVersion"
    /\ pc' = "caught"
    /\ phase' = SetState(phase, PHASE_INTRO)
    /\ logged' = CatchLog("Error")
    /\ UNCHANGED outsideWizard
    /\ UNCHANGED <<verificationRequest, backupInfo, mounted, listening,
                   localBackupInfo, restore, crossSigningId, requestVars,
                   finishedCalls>>

\* accessSecretStorage invokes the callback, which calls
\* cli.checkOwnCrossSigningTrust() and awaits it.
accessSecretStorageCallback ==
    /\ pc = "accessSecretStorage"
    /\ pc' = "checkOwnCrossSigningTrust"
    /\ logged' = << >>
    /\ UNCHANGED outsideWizard
    /\ UNCHANGED <<wizardState, mounted, listening, localBackupInfo, restore,
                   crossSigningId, requestVars, finishedCalls>>

\* accessSecretStorage fails with e after it returned (its promise rejects):
\* nothing holds that promise, so neither resolve nor reject is ever called
\* and the awaited Promise stays pending.
accessSecretStorageRejected(e) ==
    /\ pc = "accessSecretStorage"
    /\ e \in Errors
    /\ pc' = "hung"
    /\ logged' = << >>
    /\ UNCHANGED outsideWizard
    /\ UNCHANGED <<wizardState, mounted, listening, localBackupInfo, restore,
                   crossSigningId, requestVars, finishedCalls>>

\* resolve() called only after the restore: with a backup the wizard goes on
\* waiting when the trust check has succeeded.
checkOwnCrossSigningTrustResolved_AwaitsRestore(id) ==
    /\ pc = "checkOwnCrossSigningTrust"
    /\ crossSigningId' = id
    /\ phase' = IF localBackupInfo # NoBackup THEN phase ELSE PhaseAfterTrust(id)
    /\ restore' = RestoreAfterTrust(localBackupInfo)
    /\ pc' = "returned"
    /\ logged' = << >>
    /\ UNCHANGED outsideWizard
    /\ UNCHANGED <<verificationRequest, backupInfo, mounted, listening,
                   localBackupInfo, requestVars, finishedCalls>>

\* checkOwnCrossSigningTrust() resolves: resolve(); the restore is started when
\* there is a backup; then the outer function resumes at getCrossSigningId(),
\* which reports an id or not.
checkOwnCrossSigningTrustResolved(id) ==
    /\ pc = "checkOwnCrossSigningTrust"
    /\ crossSigningId' = id
    /\ phase' = PhaseAfterTrust(id)
    /\ restore' = RestoreAfterTrust(localBackupInfo)
    /\ pc' = "returned"
    /\ logged' = << >>
    /\ UNCHANGED outsideWizard
    /\ UNCHANGED <<verificationRequest, backupInfo, mounted, listening,
                   localBackupInfo, requestVars, finishedCalls>>

\* checkOwnCrossSigningTrust() rejects: the callback's promise rejects inside
\* accessSecretStorage; resolve and reject are never called.
checkOwnCrossSigningTrustRejected ==
    /\ pc = "checkOwnCrossSigningTrust"
    /\ pc' = "hung"
    /\ logged' = << >>
    /\ UNCHANGED outsideWizard
    /\ UNCHANGED <<wizardState, mounted, listening, localBackupInfo, restore,
                   crossSigningId, requestVars, finishedCalls>>

\* A restore that would be awaited by the wizard: its failure reaches the catch.
restoreKeyBackupSettled_Awaited(result) ==
    /\ restore = "running"
    /\ restore' = result
    /\ phase' = IF result = "failed" THEN SetState(phase, PHASE_INTRO) ELSE phase
    /\ logged' = IF result = "failed" THEN CatchLog("Error") ELSE << >>
    /\ UNCHANGED outsideWizard
    /\ UNCHANGED <<verificationRequest, backupInfo, mounted, listening, pc,
                   localBackupInfo, crossSigningId, requestVars, finishedCalls>>

\* restoreKeyBackupWithSecretStorage settles in the background: the wizard's
\* Promise is already resolved, and nothing of the wizard waits for it.
restoreKeyBackupSettled(result) ==
    /\ restore = "running"
    /\ restore' = result
    /\ logged' = << >>
    /\ UNCHANGED outsideWizard
    /\ UNCHANGED <<wizardState, mounted, listening, pc, localBackupInfo,
                   crossSigningId, requestVars, finishedCalls>>

\* ---- onVerificationRequest ------------------------------------------------
\* The client emits "crypto.verification.request" with a new request r of
\* otherUserId: up to the await of request.accept().
onVerificationRequest(r, otherUserId) ==
    /\ listening
    /\ reqState[r] = "new"
    /\ IF IsOwnRequest(otherUserId)
       THEN /\ subs' = OffCurrent(subs)
            /\ reqState' = [reqState EXCEPT ![r] = "accepting"]
       ELSE /\ subs' = subs
            /\ reqState' = [reqState EXCEPT ![r] = "ignored"]
    /\ logged' = << >>
    /\ UNCHANGED outsideWizard
    /\ UNCHANGED <<wizardState, mounted, listening, flowVars, cancelled,
                   finishedCalls>>

\* Showing the request also resets the phase.
acceptResolved_ResetsPhase(r) ==
    /\ reqState[r] = "accepting"
    /\ reqState' = [reqState EXCEPT ![r] = "accepted"]
    /\ subs' = subs \cup {r}
    /\ verificationRequest' = SetState(verificationRequest, r)
    /\ phase' = SetState(phase, PHASE_INTRO)
    /\ logged' = << >>
    /\ UNCHANGED outsideWizard
    /\ UNCHANGED <<backupInfo, mounted, listening, flowVars, cancelled,
                   finishedCalls>>

\* request.accept() resolves: request.on("change", ...); setState({verificationRequest}).
acceptResolved(r) ==
    /\ reqState[r] = "accepting"
    /\ reqState' = [reqState EXCEPT ![r] = "accepted"]
    /\ subs' = subs \cup {r}
    /\ verificationRequest' = SetState(verificationRequest, r)
    /\ logged' = << >>
    /\ UNCHANGED outsideWizard
    /\ UNCHANGED <<phase, backupInfo, mounted, listening, flowVars, cancelled,
                   finishedCalls>>

\* request.accept() rejects: onVerificationRequest ends there.
acceptRejected(r) ==
    /\ reqState[r] = "accepting"
    /\ reqState' = [reqState EXCEPT ![r] = "acceptFailed"]
    /\ logged' = << >>
    /\ UNCHANGED outsideWizard
    /\ UNCHANGED <<wizardState, mounted, listening, flowVars, cancelled, subs,
                   finishedCalls>>

\* ---- onVerificationRequestChange ------------------------------------------
\* Request r changes (becoming cancelled when cancel) and emits "change"; the
\* handler runs when it is subscribed on r, and reads the request the state
\* refers to; reading .cancelled of null is an uncaught TypeError.
requestChange(r, cancel) ==
    /\ reqState[r] \in {"accepting", "accepted", "acceptFailed"}
    /\ cancel => ~cancelled[r]
    /\ cancelled' = [cancelled EXCEPT ![r] = cancelled[r] \/ cancel]
    /\ IF r \notin subs
       THEN /\ logged' = << >>
            /\ UNCHANGED <<verificationRequest, subs>>
       ELSE IF verificationRequest = NoRequest
       THEN /\ logged' = << <<"uncaught", "TypeError">> >>
            /\ UNCHANGED <<verificationRequest, subs>>
       ELSE IF cancelled'[verificationRequest]
       THEN /\ logged' = << >>
            /\ subs' = OffCurrent(subs)
            /\ verificationRequest' = SetState(verificationRequest, NoRequest)
       ELSE /\ logged' = << >>
            /\ UNCHANGED <<verificationRequest, subs>>
    /\ UNCHANGED outsideWizard
    /\ UNCHANGED <<phase, backupInfo, mounted, listening, flowVars, reqState,
                   finishedCalls>>

\* ---- the buttons -----------------------------------------------------------
\* The Skip button of the Intro body wired to the handler of the confirmation.
onSkipClick_Finishes ==
    /\ ShowsPhase(PHASE_INTRO)
    /\ finishedCalls < MaxFinished
    /\ finishedCalls' = finishedCalls + 1
    /\ logged' = << >>
    /\ UNCHANGED outsideWizard
    /\ UNCHANGED <<wizardState, mounted, listening, flowVars, requestVars>>

onSkipClick_Busy ==
    /\ ShowsPhase(PHASE_INTRO)
    /\ phase' = SetState(phase, PHASE_BUSY)
    /\ logged' = << >>
    /\ UNCHANGED outsideWizard
    /\ UNCHANGED <<verificationRequest, backupInfo, mounted, listening,
                   flowVars, requestVars, finishedCalls>>

onSkipClick ==
    /\ ShowsPhase(PHASE_INTRO)
    /\ phase' = SetState(phase, PHASE_CONFIRM_SKIP)
    /\ logged' = << >>
    /\ UNCHANGED outsideWizard
    /\ UNCHANGED <<verificationRequest, backupInfo, mounted, listening,
                   flowVars, requestVars, finishedCalls>>

onSkipConfirmClick ==
    /\ ShowsPhase(PHASE_CONFIRM_SKIP)
    /\ finishedCalls < MaxFinished
    /\ finishedCalls' = finishedCalls + 1
    /\ logged' = << >>
    /\ UNCHANGED outsideWizard
    /\ UNCHANGED <<wizardState, mounted, listening, flowVars, requestVars>>

\* Go back with the wrong phase constant.
onSkipBackClick_Busy ==
    /\ ShowsPhase(PHASE_CONFIRM_SKIP)
    /\ phase' = SetState(phase, PHASE_BUSY)
    /\ logged' = << >>
    /\ UNCHANGED outsideWizard
    /\ UNCHANGED <<verificationRequest, backupInfo, mounted, listening,
                   flowVars, requestVars, finishedCalls>>

onSkipBackClick ==
    /\ ShowsPhase(PHASE_CONFIRM_SKIP)
    /\ phase' = SetState(phase, PHASE_INTRO)
    /\ logged' = << >>
    /\ UNCHANGED outsideWizard
    /\ UNCHANGED <<verificationRequest, backupInfo, mounted, listening,
                   flowVars, requestVars, finishedCalls>>

onDoneClick ==
    /\ ShowsPhase(PHASE_DONE)
    /\ finishedCalls < MaxFinished
    /\ finishedCalls' = finishedCalls + 1
    /\ logged' = << >>
    /\ UNCHANGED outsideWizard
    /\ UNCHANGED <<wizardState, mounted, listening, flowVars, requestVars>>

\* EncryptionPanel's onClose is props.onFinished.
onPanelClose ==
    /\ mounted /\ ShowsPanel
    /\ finishedCalls < MaxFinished
    /\ finishedCalls' = finishedCalls + 1
    /\ logged' = << >>
    /\ UNCHANGED outsideWizard
    /\ UNCHANGED <<wizardState, mounted, listening, flowVars, requestVars>>

\* ---- specification ---------------------------------------------------------
Next ==
    \/ componentWillUnmount
    \/ onUsePassphraseClick
    \/ \E info \in BackupInfos, thrown \in Errors \cup {"none"} :
          getKeyBackupVersionResolved(info, thrown)
    \/ getKeyBackupVersionRejected
    \/ accessSecretStorageCallback
    \/ \E e \in Errors : accessSecretStorageRejected(e)
    \/ \E id \in BOOLEAN : checkOwnCrossSigningTrustResolved(id)
    \/ checkOwnCrossSigningTrustRejected
    \/ \E result \in {"done", "failed"} : restoreKeyBackupSettled(result)
    \/ \E r \in Requests, u \in UserIds : onVerificationRequest(r, u)
    \/ \E r \in Requests : acceptResolved(r)
    \/ \E r \in Requests : acceptRejected(r)
    \/ \E r \in Requests, cancel \in BOOLEAN : requestChange(r, cancel)
    \/ onSkipClick
    \/ onSkipConfirmClick
    \/ onSkipBackClick
    \/ onDoneClick
    \/ onPanelClose

Spec == Init /\ [][Next]_vars

\* The external calls of the passphrase flow settle: the promises of
\* getKeyBackupVersion, accessSecretStorage and checkOwnCrossSigningTrust do
\* not stay pending forever.
ExternalCallSettles ==
    \/ \E info \in BackupInfos, thrown \in Errors \cup {"none"} :
          getKeyBackupVersionResolved(info, thrown)
    \/ getKeyBackupVersionRejected
    \/ accessSecretStorageCallback
    \/ \E e \in Errors : accessSecretStorageRejected(e)
    \/ \E id \in BOOLEAN : checkOwnCrossSigningTrustResolved(id)
    \/ checkOwnCrossSigningTrustRejected

FairSpec == Spec /\ WF_vars(ExternalCallSettles)

TypeOK ==
    /\ phase \in Phases
    /\ verificationRequest \in Requests \cup {NoRequest}
    /\ backupInfo \in BackupInfos
    /\ pc \in {"idle", "getKeyBackupVersion", "accessSecretStorage",
               "checkOwnCrossSigningTrust", "returned", "caught", "hung"}
    /\ restore \in {"none", "running", "done", "failed"}
    /\ subs \subseteq Requests
    /\ finishedCalls \in 0..MaxFinished

\* ---- KeywordsEditor (MentionsKeywordsSection.tsx) ---------------------------
\* A string is a sequence of characters; the characters in the order of
\* their code units.
MaxLen == 2             \* longest text of the textarea and of a keyword
MaxKeywords == 2        \* longest keyword list

Chars == <<" ", "a">>
CharSet == {Chars[i] : i \in 1..Len(Chars)}
Rank(c) == CHOOSE i \in 1..Len(Chars) : Chars[i] = c
Strings == UNION {[1..n -> CharSet] : n \in 0..MaxLen}

\* What the editor's handlers never touch.
outsideEditor == <<wizardVars, sharedRoomsVars>>

\* String.prototype.trim
RECURSIVE TrimStart(_)
TrimStart(s) == IF s # << >> /\ Head(s) = " " THEN TrimStart(Tail(s)) ELSE s

RECURSIVE TrimEnd(_)
TrimEnd(s) ==
    IF s # << >> /\ s[Len(s)] = " " THEN TrimEnd(SubSeq(s, 1, Len(s) - 1)) ELSE s

\* A trim that strips nothing.
Trim_Nothing(s) == s

Trim(s) == TrimEnd(TrimStart(s))

\* Array.prototype.includes
Includes(ks, k) == \E i \in 1..Len(ks) : ks[i] = k

\* The order of Array.prototype.sort() on strings: by code units, a proper
\* prefix first.
RECURSIVE Less(_, _)
Less(s, t) ==
    IF t = << >> THEN FALSE
    ELSE IF s = << >> THEN TRUE
    ELSE IF Head(s) # Head(t) THEN Rank(Head(s)) < Rank(Head(t))
    ELSE Less(Tail(s), Tail(t))

\* MentionsKeywordsSection: Array.from(new Set(patterns)), then sort().
InitialKeywords ==
    { ks \in UNION {[1..n -> Strings] : n \in 0..MaxKeywords} :
        \A i \in 1..Len(ks) : \A j \in 1..Len(ks) : i < j => Less(ks[i], ks[j]) }

EditorInit ==
    /\ disabled \in BOOLEAN
    /\ keywords \in InitialKeywords
    /\ value = << >>
    /\ parentCalls = << >>

\* _addKeyword: the list after it, and the calls of the parent it makes.
AddKeywordList(ks, keyword) ==
    IF Trim(keyword) = << >> \/ Includes(ks, Trim(keyword))
    THEN ks
    ELSE Append(ks, Trim(keyword))

AddKeywordCalls(ks, keyword) ==
    IF Trim(keyword) = << >> \/ Includes(ks, Trim(keyword))
    THEN << >>
    ELSE << <<"addKeyword", Trim(keyword)>> >>

\* _removeKeyword: keywords.filter(k => k !== keyword); removeKeyword(keyword).
RemoveKeywordList(ks, keyword) ==
    LET Keep(k) == k # keyword IN SelectSeq(ks, Keep)

RemoveKeywordCalls(ks, keyword) == << <<"removeKeyword", keyword>> >>

\* The left-most keyword taken for the right-most.
RightMost_First(ks) == ks[1]

\* keywords[keywords.length - 1]
RightMost(ks) == ks[Len(ks)]

\* onChange: setValue(e.target.value)
onChange(text) ==
    /\ ~disabled
    /\ text \in Strings
    /\ value' = text
    /\ parentCalls' = << >>
    /\ UNCHANGED <<disabled, keywords>>
    /\ UNCHANGED outsideEditor

\* onKeyDown with e.key and the modifiers of the event; e.target.value is value.
onKeyDown(key, ctrlKey, shiftKey, metaKey) ==
    /\ ~disabled
    /\ IF key = "Backspace" /\ value = << >> /\ Len(keywords) > 0
             /\ ~ctrlKey /\ ~shiftKey /\ ~metaKey
       THEN /\ keywords' = RemoveKeywordList(keywords, RightMost(keywords))
            /\ parentCalls' = RemoveKeywordCalls(keywords, RightMost(keywords))
            /\ value' = value
       ELSE IF key = "Enter"
       THEN /\ Len(AddKeywordList(keywords, value)) <= MaxKeywords
            /\ keywords' = AddKeywordList(keywords, value)
            /\ parentCalls' = AddKeywordCalls(keywords, value)
            /\ value' = << >>
       ELSE /\ parentCalls' = << >>
            /\ UNCHANGED <<keywords, value>>
    /\ UNCHANGED disabled
    /\ UNCHANGED outsideEditor

\* onBlur: if (value) { addKeyword(e.target.value); setValue(""); }
onBlur ==
    /\ ~disabled
    /\ IF value # << >>
       THEN /\ parentCalls' = << <<"addKeyword", value>> >>
            /\ value' = << >>
       ELSE /\ parentCalls' = << >>
            /\ value' = value
    /\ UNCHANGED <<disabled, keywords>>
    /\ UNCHANGED outsideEditor

\* The remove button of the pill of keywords[i]: onRemove(keyword).
onRemove(i) ==
    /\ ~disabled
    /\ i \in 1..Len(keywords)
    /\ keywords' = RemoveKeywordList(keywords, keywords[i])
    /\ parentCalls' = RemoveKeywordCalls(keywords, keywords[i])
    /\ UNCHANGED <<disabled, value>>
    /\ UNCHANGED outsideEditor

Keys == {"Backspace", "Enter", "a"}

EditorNext ==
    \/ \E text \in Strings : onChange(text)
    \/ \E key \in Keys, ctrlKey \in BOOLEAN, shiftKey \in BOOLEAN,
          metaKey \in BOOLEAN : onKeyDown(key, ctrlKey, shiftKey, metaKey)
    \/ onBlur
    \/ \E i \in 1..MaxKeywords : onRemove(i)

\* The editor mounted, beside a wizard that does nothing.
KeywordsInit == WizardInit /\ EditorInit /\ SharedRoomsAbsent

EditorSpec == KeywordsInit /\ [][EditorNext]_vars

\* ---- UserInfoSharedRooms ----------------------------------------------------
NumRooms == 4           \* rooms the server may report as shared

LIMITED_VIEW_SHOW_COUNT == 3

\* Room ids, numbered by the time of the newest event: a higher id is a room
\* with more recent activity.
RoomIds == 1..NumRooms

\* A room of the client: with or without an m.room.tombstone state event,
\* with or without a canonical alias.
RoomObjects ==
    {[found |-> TRUE, tombstone |-> t, alias |-> a] : t \in BOOLEAN, a \in BOOLEAN}

\* What the component's handlers never touch.
outsideSharedRooms == <<wizardVars, editorVars>>

SharedRoomsInit ==
    /\ compact \in BOOLEAN
    /\ getRoom \in [RoomIds -> RoomObjects \cup {NullRoom}]
    /\ hasRoomIds = FALSE
    /\ roomIds = << >>
    /\ error = FALSE
    /\ showAll = FALSE
    /\ dispatched = << >>

\* mostRecentActivityFirst (RoomListSorter): the rooms by descending time of
\* their newest event.
RECURSIVE mostRecentActivityFirst(_)
mostRecentActivityFirst(ids) ==
    IF ids = << >> THEN << >>
    ELSE LET newest == CHOOSE i \in 1..Len(ids) :
                          \A j \in 1..Len(ids) : ids[j] <= ids[i]
             IsOlder(id) == id # ids[newest]
         IN  <<ids[newest]>> \o mostRecentActivityFirst(SelectSeq(ids, IsOlder))

NoTile == [type |-> "null", roomId |-> 0]

\* renderRoomTile(peg.getRoom(roomId))
renderRoomTile(roomId) ==
    LET room == getRoom[roomId]
    IN  IF ~room.found THEN NoTile
        ELSE IF room.tombstone THEN NoTile
        ELSE IF compact
             THEN IF ~room.alias THEN NoTile
                  ELSE [type |-> "Pill", roomId |-> roomId]
             ELSE [type |-> "RoomTile", roomId |-> roomId]

\* renderRoomTiles: the tiles of the ordered rooms, the nulls filtered out.
renderRoomTiles ==
    LET ordered == mostRecentActivityFirst(roomIds)
        tiles == [i \in 1..Len(ordered) |-> renderRoomTile(ordered[i])]
        NotNull(tile) == tile # NoTile
    IN  SelectSeq(tiles, NotNull)

\* Array.prototype.slice(0, n)
SliceFromStart(s, n) == SubSeq(s, 1, IF Len(s) < n THEN Len(s) ELSE n)

\* render: the first branch of the if is taken (content is an array of tiles).
HasRooms == hasRoomIds /\ Len(roomIds) > 0

\* The count taken before the hidden rooms are filtered out.
realCount_AllRooms == IF HasRooms THEN Len(roomIds) ELSE 0

\* render: realCount
realCount == IF HasRooms THEN Len(renderRoomTiles) ELSE 0

\* render: content, where it is an array of tiles (empty otherwise).
content ==
    IF HasRooms
    THEN IF ~showAll
         THEN SliceFromStart(renderRoomTiles, LIMITED_VIEW_SHOW_COUNT)
         ELSE renderRoomTiles
    ELSE << >>

\* render: the paragraph or spinner that stands for content otherwise.
message ==
    IF HasRooms THEN "none"
    ELSE IF hasRoomIds THEN "You share no rooms in common with this user."
    ELSE IF error THEN "There was an error fetching shared rooms with this user."
    ELSE "Spinner"

\* render: canShowMore (normal view)
canShowMore == ~showAll /\ realCount > LIMITED_VIEW_SHOW_COUNT

\* No "more" count is displayed.
NoMore == 0

\* render: the number displayed as "and N more" (compact view) or
\* "Show N more" (normal view).
moreCount ==
    IF compact
    THEN IF Len(content) > 0 /\ ~(realCount <= Len(content))
         THEN realCount - Len(content)
         ELSE NoMore
    ELSE IF canShowMore THEN realCount - Len(content) ELSE NoMore

\* componentDidMount: _unstable_getSharedRooms resolved with ids.
getSharedRoomsResolved(ids) ==
    /\ ~hasRoomIds /\ ~error
    /\ hasRoomIds' = TRUE
    /\ roomIds' = ids
    /\ dispatched' = << >>
    /\ UNCHANGED <<compact, getRoom, error, showAll>>
    /\ UNCHANGED outsideSharedRooms

\* componentDidMount: _unstable_getSharedRooms rejected.
getSharedRoomsRejected ==
    /\ ~hasRoomIds /\ ~error
    /\ error' = TRUE
    /\ dispatched' = << >>
    /\ UNCHANGED <<compact, getRoom, hasRoomIds, roomIds, showAll>>
    /\ UNCHANGED outsideSharedRooms

\* onRoomTileClick of the i-th tile on screen, bound to the array [room.roomId].
onRoomTileClick(i) ==
    /\ ~compact
    /\ i \in 1..Len(content)
    /\ dispatched' = << <<content[i].roomId>> >>
    /\ UNCHANGED <<compact, getRoom, hasRoomIds, roomIds, error, showAll>>
    /\ UNCHANGED outsideSharedRooms

\* onShowMoreClick, of the button that is rendered when canShowMore.
onShowMoreClick ==
    /\ ~compact
    /\ canShowMore
    /\ showAll' = TRUE
    /\ dispatched' = << >>
    /\ UNCHANGED <<compact, getRoom, hasRoomIds, roomIds, error>>
    /\ UNCHANGED outsideSharedRooms

\* The server reports the rooms 1..n as shared.
SharedRoomLists == {[i \in 1..n |-> i] : n \in 0..NumRooms}

SharedRoomsNext ==
    \/ \E ids \in SharedRoomLists : getSharedRoomsResolved(ids)
    \/ getSharedRoomsRejected
    \/ \E i \in RoomIds : onRoomTileClick(i)
    \/ onShowMoreClick

SharedRoomsSpecInit == WizardInit /\ EditorAbsent /\ SharedRoomsInit

SharedRoomsSpec == SharedRoomsSpecInit /\ [][SharedRoomsNext]_vars

\* ---- claims ----------------------------------------------------------------

\* An external call of the flow failed: synchronously ("caught") or after
\* accessSecretStorage had returned ("hung").
FlowFailed == pc \in {"caught", "hung"}

C2_CancelReturnsToIntroSilently ==
    [][(/\ mounted
        /\ \/ \E info \in BackupInfos :
                 getKeyBackupVersionResolved(info, "AccessCancelledError")
           \/ accessSecretStorageRejected("AccessCancelledError"))
          => (phase' = PHASE_INTRO /\ logged' = << >>)]_vars

\* C3: every failure of the passphrase flow other than the cancellation, at
\* any step, is logged and takes the mounted wizard from Busy to Intro.
C3_FailureLoggedAndIntro ==
    [][(/\ mounted
        /\ \/ getKeyBackupVersionRejected
           \/ \E info \in BackupInfos : getKeyBackupVersionResolved(info, "Error")
           \/ accessSecretStorageRejected("Error")
           \/ checkOwnCrossSigningTrustRejected)
          => (phase = PHASE_BUSY /\ phase' = PHASE_INTRO /\ logged' # << >>)]_vars

\* C4: skip takes Intro to ConfirmSkip, go-back takes ConfirmSkip to Intro,
\* neither calls onFinished; confirm-skip calls onFinished exactly once and
\* leaves the phase alone.
C4_SkipTransitions ==
    [][/\ onSkipClick =>
            /\ phase = PHASE_INTRO /\ phase' = PHASE_CONFIRM_SKIP
            /\ finishedCalls' = finishedCalls
       /\ onSkipBackClick =>
            /\ phase = PHASE_CONFIRM_SKIP /\ phase' = PHASE_INTRO
            /\ finishedCalls' = finishedCalls
       /\ onSkipConfirmClick =>
            /\ finishedCalls' = finishedCalls + 1
            /\ phase' = phase]_vars

C4_Witness ==
    /\ mounted /\ phase = PHASE_CONFIRM_SKIP /\ finishedCalls = 1
    /\ pc = "idle" /\ \A r \in Requests : reqState[r] = "new"

\* C5: the wizard holds at most one subscription to a request's change stream
\* at any time, and whenever verificationRequest is replaced or cleared the
\* previous request is no longer subscribed.
C5_AtMostOneSubscription ==
    /\ [](Cardinality(subs) <= 1)
    /\ [][(verificationRequest # NoRequest
              /\ verificationRequest' # verificationRequest)
            => verificationRequest \notin subs']_vars

\* C6: an unmounted wizard holds no subscription to any request's change
\* stream.
C6_NoSubscriptionAfterUnmount ==
    ~mounted => subs = {}

\* C7: a verification request of another user changes nothing: it is not
\* accepted, no subscription is added or removed, and phase,
\* verificationRequest and backupInfo keep their values.
C7_ForeignRequestIgnored ==
    [][\A r \in Requests : \A u \in UserIds \ {MyUserId} :
          onVerificationRequest(r, u) =>
            /\ reqState'[r] = "ignored"
            /\ UNCHANGED <<phase, verificationRequest, backupInfo, subs,
                           cancelled, finishedCalls>>]_vars

C7_Witness ==
    \E r \in Requests :
        /\ reqState[r] = "ignored"
        /\ verificationRequest \in subs
        /\ phase = PHASE_BUSY

\* C8: in any phase a request of the logged-in user is accepted and, once
\* accepted, shown (verificationRequest is that request); when the shown
\* request becomes cancelled, verificationRequest is cleared.
C8_ShownUntilCancelled ==
    [][\A r \in Requests :
          /\ onVerificationRequest(r, MyUserId) => reqState'[r] = "accepting"
          /\ (mounted /\ acceptResolved(r)) => verificationRequest' = r
          /\ (mounted /\ verificationRequest = r /\ requestChange(r, TRUE))
                => verificationRequest' = NoRequest]_vars

\* One of the wizard's own buttons is pressed.
ButtonPressed ==
    \/ onUsePassphraseClick
    \/ onSkipClick
    \/ onSkipConfirmClick
    \/ onSkipBackClick
    \/ onDoneClick

\* C9: once the phase is Done it stays Done, and the only button the Done
\* body offers is Done, which calls onFinished once.
C9_DoneIsTerminal ==
    [][/\ phase = PHASE_DONE => phase' = PHASE_DONE
       /\ (phase = PHASE_DONE /\ ButtonPressed) =>
            (onDoneClick /\ finishedCalls' = finishedCalls + 1)]_vars

C9_Witness ==
    /\ phase = PHASE_DONE /\ restore = "failed" /\ finishedCalls = 1
    /\ \E r \in Requests : cancelled[r]

\* C10: the phase becomes Done only from Busy, in the step in which the
\* trust check has succeeded and the client reports a cross-signing id; a
\* phase of Done implies both.
C10_DoneOnlyAfterTrust ==
    [][/\ (phase # PHASE_DONE /\ phase' = PHASE_DONE) =>
            /\ phase = PHASE_BUSY
            /\ checkOwnCrossSigningTrustResolved(TRUE)
       /\ phase' = PHASE_DONE => (pc' = "returned" /\ crossSigningId')]_vars

C10_Witness ==
    phase = PHASE_DONE /\ pc = "returned" /\ crossSigningId
        /\ restore = "running"

\* The transitions of the state table.
TableTransitions ==
    { <<PHASE_INTRO, PHASE_BUSY>>, <<PHASE_INTRO, PHASE_CONFIRM_SKIP>>,
      <<PHASE_BUSY, PHASE_DONE>>, <<PHASE_BUSY, PHASE_INTRO>>,
      <<PHASE_CONFIRM_SKIP, PHASE_INTRO>> }

\* C11: the initial phase is Intro, and every change of the phase out of
\* Intro, Busy or ConfirmSkip is a transition of the state table.
C11_OnlyTableTransitions ==
    /\ phase = PHASE_INTRO
    /\ [][(phase' # phase /\ phase # PHASE_DONE)
            => <<phase, phase'>> \in TableTransitions]_vars

C11_Witness ==
    /\ phase = PHASE_CONFIRM_SKIP /\ pc = "caught"
    /\ \E r \in Requests : reqState[r] = "accepted" /\ cancelled[r]

C13_CallOrder ==
    [][/\ (pc' = "accessSecretStorage" /\ pc # "accessSecretStorage")
            => /\ pc = "getKeyBackupVersion"
               /\ \E info \in BackupInfos : getKeyBackupVersionResolved(info, "none")
       /\ (pc' = "checkOwnCrossSigningTrust" /\ pc # "checkOwnCrossSigningTrust")
            => pc = "accessSecretStorage"
       /\ (restore' = "running" /\ restore # "running")
            => /\ pc = "checkOwnCrossSigningTrust"
               /\ \E id \in BOOLEAN : checkOwnCrossSigningTrustResolved(id)
               /\ localBackupInfo # NoBackup
       /\ (\E id \in BOOLEAN : checkOwnCrossSigningTrustResolved(id))
            => (restore' = "running" <=> localBackupInfo # NoBackup)]_vars

C13_Witness ==
    /\ restore = "running" /\ localBackupInfo # NoBackup /\ pc = "returned"
    /\ ~crossSigningId

\* An external call of the passphrase flow is pending.
CallPending == pc \in {"getKeyBackupVersion", "accessSecretStorage",
                       "checkOwnCrossSigningTrust"}

\* C14: getKeyBackupVersion is called only by the user's passphrase click and
\* accessSecretStorage only once per call of getKeyBackupVersion; a failed
\* call ends the flow, and after a failure that returned the wizard to Intro
\* no call is pending or made until the next passphrase click.
C14_NoAutomaticRetry ==
    [][/\ (pc' = "getKeyBackupVersion" /\ pc # "getKeyBackupVersion")
            => onUsePassphraseClick
       /\ (pc' = "accessSecretStorage" /\ pc # "accessSecretStorage")
            => pc = "getKeyBackupVersion"
       /\ (\/ getKeyBackupVersionRejected
           \/ \E info \in BackupInfos, e \in Errors :
                 getKeyBackupVersionResolved(info, e)
           \/ \E e \in Errors : accessSecretStorageRejected(e)
           \/ checkOwnCrossSigningTrustRejected)
            => ~CallPending'
       /\ (pc = "caught" /\ ~onUsePassphraseClick) => pc' = "caught"]_vars

C14_Witness ==
    /\ mounted /\ phase = PHASE_INTRO /\ pc = "caught"
    /\ logged = CatchLog("Error")

\* C15 (as stated): onFinished is called only by confirming skip in
\* ConfirmSkip or by the Done button in Done.
C15_FinishedOnlyBySkipOrDone ==
    [][finishedCalls' # finishedCalls
         => \/ (onSkipConfirmClick /\ phase = PHASE_CONFIRM_SKIP)
            \/ (onDoneClick /\ phase = PHASE_DONE)]_vars

\* C15 (amended): onFinished is called only by confirming skip, by the Done
\* button, or by the embedded verification panel's onClose while a
\* verification request is shown; each is one call.
C15_FinishedOnlyByDismissal ==
    [][finishedCalls' # finishedCalls
         => /\ finishedCalls' = finishedCalls + 1
            /\ \/ (onSkipConfirmClick /\ ShowsPhase(PHASE_CONFIRM_SKIP))
               \/ (onDoneClick /\ ShowsPhase(PHASE_DONE))
               \/ (onPanelClose /\ ShowsPanel)]_vars

C15_Witness ==
    /\ finishedCalls = 1 /\ ShowsPanel /\ mounted
    /\ phase = PHASE_BUSY /\ CallPending

\* A step of the verification-request handling.
RequestHandling ==
    \/ \E r \in Requests, u \in UserIds : onVerificationRequest(r, u)
    \/ \E r \in Requests : acceptResolved(r) \/ acceptRejected(r)
    \/ \E r \in Requests, cancel \in BOOLEAN : requestChange(r, cancel)

\* A step of a phase handler: the passphrase flow, skip, go back.
PhaseHandling ==
    \/ onUsePassphraseClick
    \/ \E info \in BackupInfos, thrown \in Errors \cup {"none"} :
          getKeyBackupVersionResolved(info, thrown)
    \/ getKeyBackupVersionRejected
    \/ accessSecretStorageCallback
    \/ \E e \in Errors : accessSecretStorageRejected(e)
    \/ \E id \in BOOLEAN : checkOwnCrossSigningTrustResolved(id)
    \/ checkOwnCrossSigningTrustRejected
    \/ \E result \in {"done", "failed"} : restoreKeyBackupSettled(result)
    \/ onSkipClick
    \/ onSkipBackClick

\* C16: the verification-request handling leaves phase and backupInfo
\* unchanged, and the phase handlers leave verificationRequest unchanged.
C16_OverlayIsNotAPhase ==
    [][/\ RequestHandling => UNCHANGED <<phase, backupInfo>>
       /\ PhaseHandling => UNCHANGED verificationRequest
       /\ verificationRequest' # verificationRequest
            => UNCHANGED <<phase, backupInfo>>]_vars

\* Every request was shown and cleared again, and the body shown is Done's.
C16_Witness ==
    /\ mounted /\ ~ShowsPanel /\ phase = PHASE_DONE
    /\ \A r \in Requests : reqState[r] = "accepted" /\ cancelled[r]
    /\ finishedCalls = 0

\* C17: whenever the mounted wizard's verificationRequest is non-null, the
\* wizard is subscribed to that request's change stream.
C17_ShownRequestIsSubscribed ==
    (mounted /\ verificationRequest # NoRequest) => verificationRequest \in subs

\* C18: while the wizard is mounted, onVerificationRequestChange never runs
\* with verificationRequest null: no step ends in the TypeError of reading
\* .cancelled of null.
C18_ChangeHandlerNeverSeesNull ==
    mounted => logged # << <<"uncaught", "TypeError">> >>

\* C19: once the external calls of the passphrase flow have settled (the flow
\* has returned, was caught, or is left with a rejected call), the mounted
\* wizard's phase is not Busy.
C19_BusyEndsWhenCallsSettled ==
    (mounted /\ pc \in {"returned", "caught", "hung"}) => phase # PHASE_BUSY

\* C20: Backspace with an empty field, at least one keyword and none of ctrl,
\* shift, meta held removes exactly the last keyword of the list and calls
\* removeKeyword once, with it; Backspace with a non-empty field or an empty
\* list leaves the list alone and calls nothing.
C20_BackspaceRemovesLast ==
    [][\A ctrlKey \in BOOLEAN, shiftKey \in BOOLEAN, metaKey \in BOOLEAN :
          onKeyDown("Backspace", ctrlKey, shiftKey, metaKey) =>
            /\ (value = << >> /\ keywords # << >>
                    /\ ~ctrlKey /\ ~shiftKey /\ ~metaKey)
                 => /\ keywords' = SubSeq(keywords, 1, Len(keywords) - 1)
                    /\ parentCalls' =
                          << <<"removeKeyword", keywords[Len(keywords)]>> >>
            /\ (value # << >> \/ keywords = << >>)
                 => /\ keywords' = keywords
                    /\ parentCalls' = << >>]_vars

C20_Witness ==
    /\ ~disabled /\ value = << >> /\ Len(keywords) = 1
    /\ parentCalls # << >> /\ parentCalls[1][1] = "removeKeyword"
    /\ Less(keywords[1], parentCalls[1][2])

\* A keyword list with no duplicate, no empty string and no keyword that
\* starts or ends with whitespace.
CleanKeywords(ks) ==
    /\ \A i \in 1..Len(ks) : \A j \in 1..Len(ks) : i # j => ks[i] # ks[j]
    /\ \A i \in 1..Len(ks) :
          /\ ks[i] # << >>
          /\ ks[i][1] # " "
          /\ ks[i][Len(ks[i])] # " "

\* C21: from initial keywords that are distinct, non-empty and trimmed, no
\* Enter, Backspace, pill-remove or blur event leads to a list with a
\* duplicate, an empty string or a keyword with whitespace at either end:
\* every step keeps a clean list clean.
C21_ListStaysClean ==
    [][CleanKeywords(keywords) => CleanKeywords(keywords')]_vars

\* A clean list whose last keyword was entered after the initial ones.
C21_Witness ==
    /\ CleanKeywords(keywords) /\ Len(keywords) = 2
    /\ Less(keywords[2], keywords[1])
    /\ parentCalls = << <<"addKeyword", keywords[2]>> >>

\* C22: the local list and the calls of the parent stay in step: a step calls
\* addKeyword(k) exactly when it appends k (trimmed, non-empty, not listed
\* before) to the list, and removeKeyword(k) exactly when it removes k from it,
\* whether the keyword is entered with Enter or by leaving the field.
C22_ListAndCallsInStep ==
    [][\A k \in Strings :
          /\ Includes(parentCalls', <<"addKeyword", k>>)
               <=> /\ keywords' = Append(keywords, k)
                   /\ k # << >> /\ k[1] # " " /\ k[Len(k)] # " "
                   /\ ~Includes(keywords, k)
          /\ Includes(parentCalls', <<"removeKeyword", k>>)
               <=> /\ Includes(keywords, k)
                   /\ ~Includes(keywords', k)]_vars

\* The rooms of the list that are not hidden: found, without a tombstone and,
\* in compact mode, with a canonical alias.
VisibleRooms ==
    { id \in {roomIds[i] : i \in 1..Len(roomIds)} :
        /\ getRoom[id].found
        /\ ~getRoom[id].tombstone
        /\ compact => getRoom[id].alias }

ShownRooms == {content[i].roomId : i \in 1..Len(content)}

\* C23: a room that cannot be found, a room with a tombstone and, in compact
\* mode, a room without a canonical alias gets no tile and is not counted: the
\* tiles are tiles of visible rooms, one each, all of them with showAll and
\* at most 3 of them without, and the "N more" count is the number of visible
\* rooms minus the number of tiles shown.
C23_HiddenRoomsNotCounted ==
    HasRooms =>
        /\ ShownRooms \subseteq VisibleRooms
        /\ Cardinality(ShownRooms) = Len(content)
        /\ Len(content) =
              IF showAll \/ Cardinality(VisibleRooms) <= 3
              THEN Cardinality(VisibleRooms)
              ELSE 3
        /\ IF Cardinality(VisibleRooms) > Len(content)
           THEN moreCount = Cardinality(VisibleRooms) - Len(content)
           ELSE moreCount = NoMore

\* Compact view of four shared rooms, one of them hidden: three pills and
\* no "more".
C23_Witness ==
    /\ compact /\ hasRoomIds /\ Len(roomIds) = 4
    /\ Cardinality(VisibleRooms) = 3
    /\ Len(content) = 3
    /\ moreCount = NoMore

====
